---- MODULE Spec2Model ----
(***************************************************************************)
(* ShopWise frontend: the App component's transient state (query, limit,   *)
(* loading, error, data, sortMode), the handleSearch handler with its      *)
(* pending searchProducts call, and what a render derives from the state:  *)
(* sortedResults (the two-key sort) and the ProductCard badge classes.     *)
(*                                                                         *)
(* Strings the user types are sequences of characters.  A product keeps    *)
(* the fields the sort, the card key and the badge read: store, price,     *)
(* carbon.kg_co2e and carbon.label.                                        *)
(***************************************************************************)
EXTENDS Integers, Sequences, FiniteSets

VARIABLES query, limit, loading, error, data, sortMode,
          inflight, sortedResults, badges, crashed

vars == <<query, limit, loading, error, data, sortMode,
          inflight, sortedResults, badges, crashed>>

(***************************************************************************)
(* Bounds of the model.                                                    *)
(***************************************************************************)
MaxQueryLen == 2    \* longest text typed into the search input
MaxResults == 1     \* longest result list the backend returns in Spec
MaxRankLen == 3     \* longest result list ranked in SpecPresenter
MaxInFlight == 2    \* cap on searchProducts calls pending at once

(***************************************************************************)
(* Values.                                                                 *)
(***************************************************************************)
Chars == {" ", "a"}
BoundedSeq(S, n) == UNION {[1..k -> S] : k \in 0..n}
Queries == BoundedSeq(Chars, MaxQueryLen)

DefaultLimit == 3
Limits == 1..5
SortModes == {"price", "carbon"}

NullError == "null"
ValidationMessage == "Please enter a product name before searching."
GenericMessage == "Something went wrong while contacting the ShopWise API."

Product(s, p, kg, l) ==
    [store |-> s, price |-> p, carbon |-> [kg_co2e |-> kg, label |-> l]]

\* What axios hands back as response.data on a 2xx status: a SearchResponse,
\* an object without a results field, or null.  data starts as null.
SearchResponse(rs) == [shape |-> "SearchResponse", results |-> rs]
NoResultsBody == [shape |-> "noResults", results |-> <<>>]
NullData == [shape |-> "null", results |-> <<>>]

Stores == {"A", "B"}
Prices == {30, 50}
Carbons == {1, 2, 5}
Labels == {"Low impact", "Moderate impact", "High impact",
           "", "low impact", "LOW IMPACT", "Unknown"}
LabelOf(kg) == IF kg = 1 THEN "Low impact"
               ELSE IF kg = 2 THEN "Moderate impact" ELSE "High impact"

UIProducts == {Product("A", 50, 2, "Moderate impact"),
               Product("B", 30, 5, "High impact")}
RankProducts == {Product(s, p, kg, LabelOf(kg)) :
                    s \in Stores, p \in Prices, kg \in Carbons}
CardProducts == {Product("A", 30, 1, l) : l \in Labels}

UIBodies == {SearchResponse(rs) : rs \in BoundedSeq(UIProducts, MaxResults)}
               \cup {NoResultsBody, NullData}
PresenterBodies ==
    {SearchResponse(rs) : rs \in BoundedSeq(RankProducts, MaxRankLen)}
        \cup {SearchResponse(<<p>>) : p \in CardProducts}

NoReply == [kind |-> "none", body |-> NullData]
Replies == {[kind |-> "ok", body |-> b] : b \in UIBodies}
              \cup {[kind |-> k, body |-> NullData] :
                       k \in {"http_error", "network_error"}}

(***************************************************************************)
(* String.prototype.trim on the typed text.                                *)
(***************************************************************************)
IsSpace(c) == c = " "

RECURSIVE TrimStart(_)
TrimStart(s) ==
    IF s = <<>> THEN <<>>
    ELSE IF IsSpace(Head(s)) THEN TrimStart(Tail(s)) ELSE s

RECURSIVE TrimEnd(_)
TrimEnd(s) ==
    IF s = <<>> THEN <<>>
    ELSE IF IsSpace(s[Len(s)]) THEN TrimEnd(SubSeq(s, 1, Len(s) - 1)) ELSE s

TrimNone(s) == s

Trim(s) == TrimEnd(TrimStart(s))

(***************************************************************************)
(* sortedResults: (data?.results ?? []).slice().sort(comparator).          *)
(***************************************************************************)
ComparatorNoTieBreak(a, b, mode) ==
    IF mode = "carbon"
    THEN a.carbon.kg_co2e - b.carbon.kg_co2e
    ELSE a.price - b.price

ComparatorNeverEqual(a, b, mode) ==
    IF mode = "carbon"
    THEN IF a.carbon.kg_co2e = b.carbon.kg_co2e
         THEN (IF a.price <= b.price THEN -1 ELSE 1)
         ELSE a.carbon.kg_co2e - b.carbon.kg_co2e
    ELSE IF a.price = b.price
         THEN (IF a.carbon.kg_co2e <= b.carbon.kg_co2e THEN -1 ELSE 1)
         ELSE a.price - b.price

Comparator(a, b, mode) ==
    IF mode = "carbon"
    THEN IF a.carbon.kg_co2e = b.carbon.kg_co2e
         THEN a.price - b.price
         ELSE a.carbon.kg_co2e - b.carbon.kg_co2e
    ELSE IF a.price = b.price
         THEN a.carbon.kg_co2e - b.carbon.kg_co2e
         ELSE a.price - b.price

\* Array.prototype.sort is a stable sort by the comparator: each element is
\* inserted into the sorted prefix, moving left past the elements it
\* compares strictly below.
RECURSIVE Insert(_, _, _)
Insert(sorted, x, mode) ==
    IF sorted = <<>> THEN <<x>>
    ELSE LET last == sorted[Len(sorted)]
         IN  IF Comparator(x, last, mode) < 0
             THEN Append(Insert(SubSeq(sorted, 1, Len(sorted) - 1), x, mode), last)
             ELSE Append(sorted, x)

RECURSIVE ArraySort(_, _)
ArraySort(arr, mode) ==
    IF arr = <<>> THEN <<>>
    ELSE Insert(ArraySort(SubSeq(arr, 1, Len(arr) - 1), mode), arr[Len(arr)], mode)

\* stored: the array data.results refers to after the render;
\* sorted: the array sortedResults refers to.
RankedInPlace(results, mode) ==
    [stored |-> ArraySort(results, mode), sorted |-> ArraySort(results, mode)]

Ranked(results, mode) ==
    [stored |-> results, sorted |-> ArraySort(results, mode)]

(***************************************************************************)
(* ProductCard's badge class.                                              *)
(***************************************************************************)
BadgeColorDefaultMedium(label) ==
    IF label = "Low impact" THEN "badge-low"
    ELSE IF label = "High impact" THEN "badge-high"
    ELSE "badge-medium"

BadgeColor(label) ==
    IF label = "Low impact" THEN "badge-low"
    ELSE IF label = "Moderate impact" THEN "badge-medium"
    ELSE "badge-high"

(***************************************************************************)
(* A render of App.                                                        *)
(***************************************************************************)
\* data && data.results.length > 0 reads .length of undefined when data is
\* an object without results.
RenderThrows(d) == d.shape = "noResults"

ResultsShown(d) == d.shape = "SearchResponse" /\ Len(d.results) > 0

Cards(sorted) == [i \in 1..Len(sorted) |-> BadgeColor(sorted[i].carbon.label)]

Render(d, mode) ==
    LET r == Ranked(d.results, mode)
    IN  /\ data' = [d EXCEPT !.results = r.stored]
        /\ sortedResults' = r.sorted
        /\ badges' = IF ResultsShown(d) THEN Cards(r.sorted) ELSE <<>>
        /\ crashed' = (crashed \/ RenderThrows(d))

(***************************************************************************)
(* Initial state: the useState defaults and the first render.              *)
(***************************************************************************)
Init ==
    /\ query = <<>>
    /\ limit = DefaultLimit
    /\ loading = FALSE
    /\ error = NullError
    /\ data = NullData
    /\ sortMode = "price"
    /\ inflight = <<>>
    /\ sortedResults = <<>>
    /\ badges = <<>>
    /\ crashed = FALSE

(***************************************************************************)
(* User events.                                                            *)
(***************************************************************************)
SetQuery(q) ==
    /\ ~crashed
    /\ query' = q
    /\ UNCHANGED <<limit, loading, error, sortMode, inflight>>
    /\ Render(data, sortMode)

SetLimit(n) ==
    /\ ~crashed
    /\ limit' = n
    /\ UNCHANGED <<query, loading, error, sortMode, inflight>>
    /\ Render(data, sortMode)

SetSortMode(m) ==
    /\ ~crashed
    /\ ResultsShown(data)
    /\ sortMode' = m
    /\ UNCHANGED <<query, limit, loading, error, inflight>>
    /\ Render(data, m)

\* The submit button is rendered with disabled={loading}; a form whose
\* default button is disabled is not submitted.
SubmitAlwaysEnabled == TRUE

SubmitEnabled == ~loading

ErrorKept(prev) == prev

ErrorOnDispatch(prev) == NullError

HandleSearch ==
    /\ ~crashed
    /\ SubmitEnabled
    /\ Len(inflight) < MaxInFlight
    /\ LET trimmed == Trim(query)
       IN  IF trimmed = <<>>
           THEN /\ error' = ValidationMessage
                /\ UNCHANGED <<loading, inflight>>
           ELSE /\ error' = ErrorOnDispatch(error)
                /\ loading' = TRUE
                /\ inflight' = Append(inflight,
                       [query |-> trimmed, limit |-> limit, reply |-> NoReply])
    /\ UNCHANGED <<query, limit, sortMode>>
    /\ Render(data, sortMode)

(***************************************************************************)
(* The backend answers a pending POST /api/search.                         *)
(***************************************************************************)
BackendReply(i, r) ==
    /\ i \in DOMAIN inflight
    /\ inflight[i].reply = NoReply
    /\ inflight' = [inflight EXCEPT ![i].reply = r]
    /\ UNCHANGED <<query, limit, loading, error, data, sortMode,
                   sortedResults, badges, crashed>>

(***************************************************************************)
(* handleSearch resumes after the await: try / catch / finally.            *)
(***************************************************************************)
RemoveAt(s, i) == SubSeq(s, 1, i - 1) \o SubSeq(s, i + 1, Len(s))

DataAfterCleared(reply, prev) ==
    IF reply.kind = "ok" THEN reply.body ELSE NullData

DataAfter(reply, prev) ==
    IF reply.kind = "ok" THEN reply.body ELSE prev

ErrorAfter(reply, prev) ==
    IF reply.kind = "ok" THEN prev ELSE GenericMessage

LoadingAfterSuccessOnly(reply) == reply.kind # "ok"

LoadingAfter(reply) == FALSE

Settle(i) ==
    /\ i \in DOMAIN inflight
    /\ inflight[i].reply # NoReply
    /\ LET reply == inflight[i].reply
       IN  /\ error' = ErrorAfter(reply, error)
           /\ loading' = LoadingAfter(reply)
           /\ Render(DataAfter(reply, data), sortMode)
    /\ inflight' = RemoveAt(inflight, i)
    /\ UNCHANGED <<query, limit, sortMode>>

Next ==
    \/ \E q \in Queries : SetQuery(q)
    \/ \E n \in Limits : SetLimit(n)
    \/ \E m \in SortModes : SetSortMode(m)
    \/ HandleSearch
    \/ \E i \in 1..MaxInFlight : \E r \in Replies : BackendReply(i, r)
    \/ \E i \in 1..MaxInFlight : Settle(i)

Spec == Init /\ [][Next]_vars

(***************************************************************************)
(* The presenter on its own: the state after a successful search, for      *)
(* every result list within the bound, and the user switching sort mode.   *)
(***************************************************************************)
InitPresenter ==
    /\ query = <<"a">>
    /\ limit = DefaultLimit
    /\ loading = FALSE
    /\ error = NullError
    /\ data \in PresenterBodies
    /\ sortMode = "price"
    /\ inflight = <<>>
    /\ sortedResults = Ranked(data.results, sortMode).sorted
    /\ badges = IF ResultsShown(data) THEN Cards(sortedResults) ELSE <<>>
    /\ crashed = FALSE

NextPresenter == \E m \in SortModes : SetSortMode(m)

SpecPresenter == InitPresenter /\ [][NextPresenter]_vars

(***************************************************************************)
(* Helpers of the properties.                                              *)
(***************************************************************************)
IsBlank(s) == \A i \in 1..Len(s) : IsSpace(s[i])

\* The step resumes handleSearch for the pending call i with its reply.
Settles(i) ==
    /\ i \in DOMAIN inflight
    /\ inflight[i].reply # NoReply
    /\ inflight' = RemoveAt(inflight, i)

Count(x, s) == Cardinality({i \in 1..Len(s) : s[i] = x})

IsPermutation(s, t) ==
    /\ Len(s) = Len(t)
    /\ \A i \in 1..Len(s) : Count(s[i], s) = Count(s[i], t)

SameKeys(a, b) ==
    a.price = b.price /\ a.carbon.kg_co2e = b.carbon.kg_co2e

WithKeysOf(s, a) == LET Test(x) == SameKeys(x, a) IN SelectSeq(s, Test)

(***************************************************************************)
(* C1: a search that fails (network error or non-2xx status) leaves the    *)
(* stored SearchResponse, and what is displayed from it, exactly as it     *)
(* was; it sets the generic error message and changes nothing else but     *)
(* the loading flag.                                                       *)
(***************************************************************************)
C1_FailureKeepsResults ==
    [][\A i \in 1..MaxInFlight :
          (Settles(i) /\ inflight[i].reply.kind \in {"http_error", "network_error"})
              => /\ data' = data
                 /\ sortedResults' = sortedResults
                 /\ badges' = badges
                 /\ error' = GenericMessage
                 /\ UNCHANGED <<query, limit, sortMode>>]_vars

C1_Witness ==
    /\ ResultsShown(data)
    /\ sortedResults # <<>>
    /\ error = GenericMessage
    /\ ~loading

(***************************************************************************)
(* C2: submitting a query that is empty or only whitespace issues no       *)
(* request: handleSearch sets the validation message and returns, with     *)
(* the loading flag, the pending calls and the stored result set           *)
(* unchanged.                                                              *)
(***************************************************************************)
C2_BlankQueryNoRequest ==
    [][(HandleSearch /\ IsBlank(query))
          => /\ error' = ValidationMessage
             /\ inflight' = inflight
             /\ loading' = loading
             /\ data' = data]_vars

C2_Witness ==
    /\ query # <<>>
    /\ IsBlank(query)
    /\ error = ValidationMessage
    /\ inflight = <<>>
    /\ ~loading

(***************************************************************************)
(* C3: at most one search request is in flight in every reachable state.   *)
(***************************************************************************)
C3_AtMostOneInFlight == Len(inflight) <= 1

C3_Witness ==
    /\ Len(inflight) = 1
    /\ inflight[1].reply = NoReply
    /\ ~IsBlank(query)
    /\ ~crashed

(***************************************************************************)
(* C4: a 2xx response whose body lacks the results field is handled like   *)
(* a transport error: the generic message is set, the stored result set    *)
(* is not replaced by the body, and the render does not throw.             *)
(***************************************************************************)
C4_MalformedLikeTransportError ==
    [][\A i \in 1..MaxInFlight :
          (Settles(i) /\ inflight[i].reply.kind = "ok"
                      /\ inflight[i].reply.body.shape = "noResults")
              => /\ error' = GenericMessage
                 /\ data' = data
                 /\ ~crashed']_vars

(***************************************************************************)
(* C5: the loading flag is true exactly while a search request is          *)
(* pending: set at dispatch, cleared when the reply or the error has been  *)
(* handled, on the success and on the failure path.                        *)
(***************************************************************************)
C5_LoadingIffPending == loading <=> (inflight # <<>>)

C5_Witness ==
    /\ ~loading
    /\ inflight = <<>>
    /\ error = GenericMessage

(***************************************************************************)
(* C6: the ranked output is ordered lexicographically by the mode's keys:  *)
(* by price then carbon.kg_co2e in price mode, by carbon.kg_co2e then      *)
(* price in carbon mode, both ascending.                                   *)
(***************************************************************************)
C6_LexicographicOrder ==
    \A i, j \in 1..Len(sortedResults) :
        i < j =>
            LET a == sortedResults[i]
                b == sortedResults[j]
            IN  IF sortMode = "price"
                THEN /\ a.price <= b.price
                     /\ (a.price = b.price => a.carbon.kg_co2e <= b.carbon.kg_co2e)
                ELSE /\ a.carbon.kg_co2e <= b.carbon.kg_co2e
                     /\ (a.carbon.kg_co2e = b.carbon.kg_co2e => a.price <= b.price)

C6_Witness ==
    /\ sortMode = "carbon"
    /\ Len(sortedResults) = 3
    /\ sortedResults # data.results
    /\ \E i, j \in 1..3 :
          /\ data.results[i].price = data.results[j].price
          /\ data.results[i].carbon.kg_co2e > data.results[j].carbon.kg_co2e
          /\ i < j

(***************************************************************************)
(* C7: the ranked output is a permutation of the stored result list, and   *)
(* ranking leaves the stored list as it was: the stored list changes only  *)
(* when a successful reply replaces it.                                    *)
(***************************************************************************)
C7_PermutationInputKept ==
    [][/\ IsPermutation(sortedResults', data'.results)
       /\ \/ data' = data
          \/ \E i \in 1..MaxInFlight :
                Settles(i) /\ inflight[i].reply.kind = "ok"
                           /\ data' = inflight[i].reply.body]_vars

C7_Witness ==
    /\ Len(data.results) = 3
    /\ sortedResults # data.results
    /\ data.results[1] = data.results[3]
    /\ sortMode = "carbon"

(***************************************************************************)
(* C8: ranking is stable: results equal on both price and carbon.kg_co2e   *)
(* keep their relative input order, in both modes.                         *)
(***************************************************************************)
C8_Stable ==
    \A k \in 1..Len(data.results) :
        WithKeysOf(sortedResults, data.results[k])
            = WithKeysOf(data.results, data.results[k])

C8_Witness ==
    /\ Len(data.results) = 3
    /\ sortedResults # data.results
    /\ SameKeys(data.results[1], data.results[3])
    /\ data.results[1].store # data.results[3].store
    /\ sortMode = "carbon"

(***************************************************************************)
(* C9: every card's badge is the tier of its label by exact match:         *)
(* "Low impact" is low, "Moderate impact" is moderate, any other string    *)
(* is high.                                                                *)
(***************************************************************************)
C9_BadgeByExactLabel ==
    /\ ResultsShown(data) => Len(badges) = Len(sortedResults)
    /\ \A i \in 1..Len(badges) :
          LET label == sortedResults[i].carbon.label
          IN  /\ badges[i] \in {"badge-low", "badge-medium", "badge-high"}
              /\ badges[i] = "badge-low" <=> label = "Low impact"
              /\ badges[i] = "badge-medium" <=> label = "Moderate impact"
              /\ badges[i] = "badge-high"
                    <=> label \notin {"Low impact", "Moderate impact"}

C9_Witness ==
    /\ Len(badges) = 1
    /\ sortedResults[1].carbon.label = "low impact"
    /\ badges[1] = "badge-high"
    /\ sortMode = "carbon"

(***************************************************************************)
(* C10: no error message is shown while a search is pending (dispatch      *)
(* clears it), and when a search succeeds the error is absent and the      *)
(* stored result set is exactly that search's response.                    *)
(***************************************************************************)
C10_DispatchClearsError ==
    [][/\ inflight' # <<>> => error' = NullError
       /\ \A i \in 1..MaxInFlight :
             (Settles(i) /\ inflight[i].reply.kind = "ok")
                 => /\ error' = NullError
                    /\ data' = inflight[i].reply.body]_vars

C10_Witness ==
    /\ loading
    /\ inflight # <<>>
    /\ error = NullError
    /\ ResultsShown(data)

====
